---------------------------- MODULE Spec2Model ----------------------------
(***************************************************************************)
(* The gauge simulator of backend-py: sources/simulate.py (the shared      *)
(* record `simulated`, configure, _loop, start, stop) and the HTTP         *)
(* handlers of app.py (snapshot, get_value) that read it.                  *)
(*                                                                         *)
(* Threads interleave between source lines.  A caller thread is at "idle"  *)
(* or at the line of start()/configure() it executes next; a loop thread   *)
(* is at the line of _loop() it executes next.  Lines 17-21 of _loop form  *)
(* one step (the reads of low, high and speed at lines 18-19 followed by   *)
(* loop-local arithmetic), and so do lines 22-23 (the write of value and   *)
(* the sleep).                                                             *)
(*                                                                         *)
(* Floats are modelled by integers: every bound, speed and dt is drawn     *)
(* from a grid on which all sums and differences of the code are exact.    *)
(* An optional argument is a sequence: <<>> is None, <<v>> is v.           *)
(***************************************************************************)
EXTENDS Integers, FiniteSets, Sequences, TLC

VARIABLES
    simulated,  \* simulate.py:5, the record value/low/high/speed/_running
    loops,      \* the _loop threads: program counter, locals x and direction, history
    callers,    \* the threads calling start/stop/configure and the handlers
    sinceStop,  \* history: values written since the last stop() (-1: a start() followed it)
    resp        \* the last HTTP response produced by app.py

vars == <<simulated, loops, callers, sinceStop, resp>>

-----------------------------------------------------------------------------
(* Bounds of the model *)

\* loop threads alive at the same time
MaxLoops == 2
\* dt between two ticks is a multiple of 3 s, at most 3 * MaxDt
MaxDt == 2
\* the loop-local x is kept within 30 * MaxCells of zero
MaxCells == 8

(* Program constants *)
DefaultValue == 0
DefaultLow == 0
DefaultHigh == 180
DefaultSpeed == 10
\* app.py:26-27
current_value2 == 1
Current_value3 == 100

LoopIds == 1..MaxLoops
Callers == {"t1", "t2"}
DTs == {3 * k : k \in 0..MaxDt}
\* the elapsed times used where only the threads' interleaving is explored
CoarseDTs == {0, 9}
InRange(x) == -30 * MaxCells <= x /\ x <= 30 * MaxCells

None == <<>>
Some(v) == <<v>>
Opt(S) == {None} \cup {Some(v) : v \in S}

\* arguments a caller may pass to configure()
LowArgs == Opt({0, 120})
HighArgs == Opt({0, 60, 180})
SpeedArgs == Opt({-5, 0, 10, 20})

-----------------------------------------------------------------------------
(* Pure helpers *)

min(a, b) == IF a <= b THEN a ELSE b
max(a, b) == IF a >= b THEN a ELSE b

\* simulate.py:18
EffLo(s) == min(s.low, s.high)
EffHi(s) == max(s.low, s.high)
InWindow(s, v) == EffLo(s) <= v /\ v <= EffHi(s)

\* lines 19-21 turning round at a bound without mirroring the overshoot
Bounce_no_mirror(x, direction, step, lo, hi) ==
    LET nx == x + direction * step
    IN  IF nx >= hi THEN [x |-> nx, direction |-> -1]
        ELSE IF nx <= lo THEN [x |-> nx, direction |-> 1]
        ELSE [x |-> nx, direction |-> direction]

\* lines 19-21 with the test of line 21 made before the test of line 20
Bounce_low_first(x, direction, step, lo, hi) ==
    LET nx == x + direction * step
    IN  IF nx <= lo THEN [x |-> lo + (lo - nx), direction |-> 1]
        ELSE IF nx >= hi THEN [x |-> hi - (nx - hi), direction |-> -1]
        ELSE [x |-> nx, direction |-> direction]

\* simulate.py:19-21, one advance and at most one reflection
Bounce(x, direction, step, lo, hi) ==
    LET nx == x + direction * step
    IN  IF nx >= hi THEN [x |-> hi - (nx - hi), direction |-> -1]
        ELSE IF nx <= lo THEN [x |-> lo + (lo - nx), direction |-> 1]
        ELSE [x |-> nx, direction |-> direction]

-----------------------------------------------------------------------------
(* State *)

\* A loop thread.  pc, x and direction are the thread's; the other fields are
\* history kept for the properties:
\*   stopSeen  stop() ran since this thread last tested the run flag
\*   cfgx      where x was when low or high was last written since the thread
\*             was launched: "in" or "out" of the new window ("out_stale": out,
\*             and x is a tick's result not yet written), "early" if x was not
\*             initialised yet, "none" if there was no such write
\*   big       a tick since then (or since launch) had speed*dt >= hi - lo
\*   wrote     a value was written since then (or since launch)
\*   outs      values written since then (or since launch) outside the window,
\*             counted up to 2; the pending write of "out_stale" is not counted
NoLoop == [pc |-> "none", x |-> 0, direction |-> 1, stopSeen |-> FALSE,
           cfgx |-> "none", big |-> FALSE, wrote |-> FALSE, outs |-> 0]
\* A caller thread: pc, the arguments of the configure() call in progress that
\* are still to be used, and history: op tells that its last call was a start()
\* that returned at line 26 ("start_noop") or a configure() whose speed was
\* not positive ("configure_speed_ignored"), and is "none" otherwise.
IdleCaller == [pc |-> "idle", op |-> "none", low |-> None, high |-> None, speed |-> None]
\* An HTTP exchange: the request (op, key), the producers that raise while it
\* is served (raising), and the response: status, the JSON object returned
\* (body, a function on its keys; None is null) and the producers invoked.
NoBody == [k \in {} |-> None]
NoResp == [op |-> "none", key |-> "", raising |-> {},
           status |-> 0, body |-> NoBody, invoked |-> {}]

Active(l) == loops[l].pc # "none"
ActiveLoops == {l \in LoopIds : Active(l)}

Init ==
    /\ simulated = [value |-> DefaultValue, low |-> DefaultLow, high |-> DefaultHigh,
                    speed |-> DefaultSpeed, _running |-> FALSE]
    /\ loops = [l \in LoopIds |-> NoLoop]
    /\ callers = [c \in Callers |-> IdleCaller]
    /\ sinceStop = -1
    /\ resp = NoResp

-----------------------------------------------------------------------------
(* start(), simulate.py:25-28 *)

\* line 25: a thread calls start()
start_25(c) ==
    /\ callers[c].pc = "idle"
    /\ callers' = [callers EXCEPT ![c].pc = "L26", ![c].op = "none"]
    /\ UNCHANGED <<simulated, loops, sinceStop, resp>>

\* start() without the test of line 26
start_26_unguarded(c) ==
    /\ callers[c].pc = "L26"
    /\ callers' = [callers EXCEPT ![c].pc = "L27"]
    /\ UNCHANGED <<simulated, loops, sinceStop, resp>>

\* line 26: if simulated._running: return
start_26(c) ==
    /\ callers[c].pc = "L26"
    /\ IF simulated._running
       THEN callers' = [callers EXCEPT ![c].pc = "idle", ![c].op = "start_noop"]
       ELSE callers' = [callers EXCEPT ![c].pc = "L27"]
    /\ UNCHANGED <<simulated, loops, sinceStop, resp>>

\* line 27: simulated._running = True
start_27(c) ==
    /\ callers[c].pc = "L27"
    /\ simulated' = [simulated EXCEPT !._running = TRUE]
    /\ callers' = [callers EXCEPT ![c].pc = "L28"]
    /\ sinceStop' = -1
    /\ UNCHANGED <<loops, resp>>

\* line 28: threading.Thread(target=_loop, daemon=True).start()
start_28(c) ==
    /\ callers[c].pc = "L28"
    /\ \E l \in LoopIds :
        /\ ~Active(l)
        /\ \A k \in LoopIds : k < l => Active(k)
        /\ loops' = [loops EXCEPT ![l] = [NoLoop EXCEPT !.pc = "L13"]]
    /\ callers' = [callers EXCEPT ![c].pc = "idle"]
    /\ sinceStop' = -1
    /\ UNCHANGED <<simulated, resp>>

\* stop() that also puts value back to its initial 0.0
stop_31_reset(c) ==
    /\ callers[c].pc = "idle"
    /\ simulated' = [simulated EXCEPT !._running = FALSE, !.value = DefaultValue]
    /\ callers' = [callers EXCEPT ![c].op = "none"]
    /\ sinceStop' = 0
    /\ loops' = [l \in LoopIds |-> IF Active(l) THEN [loops[l] EXCEPT !.stopSeen = TRUE]
                                    ELSE loops[l]]
    /\ UNCHANGED resp

(* stop(), simulate.py:30-31 *)
stop_31(c) ==
    /\ callers[c].pc = "idle"
    /\ simulated' = [simulated EXCEPT !._running = FALSE]
    /\ callers' = [callers EXCEPT ![c].op = "none"]
    /\ sinceStop' = 0
    /\ loops' = [l \in LoopIds |-> IF Active(l) THEN [loops[l] EXCEPT !.stopSeen = TRUE]
                                    ELSE loops[l]]
    /\ UNCHANGED resp

-----------------------------------------------------------------------------
(* configure(low, high, speed), keyword-only and each optional, simulate.py:7-10 *)

\* history: a write of low or high that leaves the record s starts a new window
Rewindow(s) ==
    [l \in LoopIds |->
        IF loops[l].pc \in {"L16", "L17", "L22"}
        THEN [loops[l] EXCEPT !.cfgx = IF InWindow(s, loops[l].x) THEN "in"
                                       ELSE IF loops[l].pc = "L22" THEN "out_stale"
                                       ELSE "out",
                              !.big = FALSE, !.wrote = FALSE, !.outs = 0]
        ELSE IF loops[l].pc = "L13" THEN [loops[l] EXCEPT !.cfgx = "early"]
        ELSE loops[l]]

\* line 7: a thread calls configure() with its keyword arguments
configure_7(c) ==
    /\ callers[c].pc = "idle"
    /\ \E low \in LowArgs, high \in HighArgs, speed \in SpeedArgs :
        callers' = [callers EXCEPT ![c].pc = "L8", ![c].op = "none", ![c].low = low,
                                   ![c].high = high, ![c].speed = speed]
    /\ UNCHANGED <<simulated, loops, sinceStop, resp>>

\* line 8: if low is not None: simulated.low = float(low)
configure_8(c) ==
    /\ callers[c].pc = "L8"
    /\ simulated' = IF callers[c].low # None
                    THEN [simulated EXCEPT !.low = callers[c].low[1]] ELSE simulated
    /\ callers' = [callers EXCEPT ![c].pc = "L9", ![c].low = None]
    /\ loops' = IF callers[c].low # None THEN Rewindow(simulated') ELSE loops
    /\ UNCHANGED <<sinceStop, resp>>

\* line 9 assigning the field of line 8
configure_9_wrong_field(c) ==
    /\ callers[c].pc = "L9"
    /\ simulated' = IF callers[c].high # None
                    THEN [simulated EXCEPT !.low = callers[c].high[1]] ELSE simulated
    /\ callers' = [callers EXCEPT ![c].pc = "L10", ![c].high = None]
    /\ loops' = IF callers[c].high # None THEN Rewindow(simulated') ELSE loops
    /\ UNCHANGED <<sinceStop, resp>>

\* line 9: if high is not None: simulated.high = float(high)
configure_9(c) ==
    /\ callers[c].pc = "L9"
    /\ simulated' = IF callers[c].high # None
                    THEN [simulated EXCEPT !.high = callers[c].high[1]] ELSE simulated
    /\ callers' = [callers EXCEPT ![c].pc = "L10", ![c].high = None]
    /\ loops' = IF callers[c].high # None THEN Rewindow(simulated') ELSE loops
    /\ UNCHANGED <<sinceStop, resp>>

\* line 10 without "and speed > 0"
configure_10_unguarded(c) ==
    /\ callers[c].pc = "L10"
    /\ simulated' = IF callers[c].speed # None
                    THEN [simulated EXCEPT !.speed = callers[c].speed[1]] ELSE simulated
    /\ callers' = [callers EXCEPT ![c].pc = "idle", ![c].speed = None,
                                  ![c].op = IF callers[c].speed # None /\ callers[c].speed[1] <= 0
                                            THEN "configure_speed_ignored" ELSE "none"]
    /\ UNCHANGED <<loops, sinceStop, resp>>

\* line 10: if speed is not None and speed > 0: simulated.speed = float(speed)
configure_10(c) ==
    /\ callers[c].pc = "L10"
    /\ simulated' = IF callers[c].speed # None /\ callers[c].speed[1] > 0
                    THEN [simulated EXCEPT !.speed = callers[c].speed[1]] ELSE simulated
    /\ callers' = [callers EXCEPT ![c].pc = "idle", ![c].speed = None,
                                  ![c].op = IF callers[c].speed # None /\ callers[c].speed[1] <= 0
                                            THEN "configure_speed_ignored" ELSE "none"]
    /\ UNCHANGED <<loops, sinceStop, resp>>

-----------------------------------------------------------------------------
(* _loop(), simulate.py:12-23 *)

\* lines 13-15 with x taken up from the value the previous run left
loop_13_resume(l) ==
    /\ loops[l].pc = "L13"
    /\ loops' = [loops EXCEPT ![l].pc = "L16", ![l].x = simulated.value, ![l].direction = 1]
    /\ UNCHANGED <<simulated, callers, sinceStop, resp>>

\* lines 13-15: x = min(low, high); direction = 1.0; t0 = now
loop_13(l) ==
    /\ loops[l].pc = "L13"
    /\ loops' = [loops EXCEPT ![l].pc = "L16", ![l].x = EffLo(simulated), ![l].direction = 1]
    /\ UNCHANGED <<simulated, callers, sinceStop, resp>>

\* line 16: while simulated._running
loop_16(l) ==
    /\ loops[l].pc = "L16"
    /\ IF simulated._running
       THEN loops' = [loops EXCEPT ![l].pc = "L17", ![l].stopSeen = FALSE]
       ELSE loops' = [loops EXCEPT ![l] = NoLoop]
    /\ UNCHANGED <<simulated, callers, sinceStop, resp>>

\* lines 17-21 with lo and hi taken from the defaults instead of the live record
loop_17_default_bounds(l, D) ==
    /\ loops[l].pc = "L17"
    /\ \E dt \in D :
        LET b == Bounce(loops[l].x, loops[l].direction, simulated.speed * dt,
                        min(DefaultLow, DefaultHigh), max(DefaultLow, DefaultHigh))
        IN  /\ InRange(b.x)
            /\ loops' = [loops EXCEPT ![l].pc = "L22", ![l].x = b.x,
                                      ![l].direction = b.direction,
                                      ![l].big = loops[l].big \/ simulated.speed * dt
                                                    >= EffHi(simulated) - EffLo(simulated)]
    /\ UNCHANGED <<simulated, callers, sinceStop, resp>>

\* lines 17-21: dt, lo, hi, advance, reflect; dt is the elapsed time, one of D
loop_17(l, D) ==
    /\ loops[l].pc = "L17"
    /\ \E dt \in D :
        LET b == Bounce(loops[l].x, loops[l].direction, simulated.speed * dt,
                        EffLo(simulated), EffHi(simulated))
        IN  /\ InRange(b.x)
            /\ loops' = [loops EXCEPT ![l].pc = "L22", ![l].x = b.x,
                                      ![l].direction = b.direction,
                                      ![l].big = loops[l].big \/ simulated.speed * dt
                                                    >= EffHi(simulated) - EffLo(simulated)]
    /\ UNCHANGED <<simulated, callers, sinceStop, resp>>

\* lines 22-23 followed by a return instead of the next test of line 16
loop_22_return(l) ==
    /\ loops[l].pc = "L22"
    /\ simulated' = [simulated EXCEPT !.value = loops[l].x]
    /\ loops' = [loops EXCEPT ![l] = NoLoop]
    /\ sinceStop' = IF sinceStop >= 0 /\ sinceStop <= MaxLoops THEN sinceStop + 1 ELSE sinceStop
    /\ UNCHANGED <<callers, resp>>

\* lines 22-23: simulated.value = x; sleep
loop_22(l) ==
    /\ loops[l].pc = "L22"
    /\ simulated' = [simulated EXCEPT !.value = loops[l].x]
    /\ loops' = [loops EXCEPT ![l].pc = "L16",
                              ![l].cfgx = IF @ = "out_stale" THEN "out" ELSE @,
                              ![l].wrote = TRUE,
                              ![l].outs = IF \/ InWindow(simulated, loops[l].x)
                                             \/ loops[l].outs >= 2
                                             \/ loops[l].cfgx = "out_stale"
                                          THEN @ ELSE @ + 1]
    /\ sinceStop' = IF sinceStop >= 0 /\ sinceStop <= MaxLoops THEN sinceStop + 1 ELSE sinceStop
    /\ UNCHANGED <<callers, resp>>

-----------------------------------------------------------------------------
(* app.py: the registry and the two handlers that invoke its producers *)

\* app.py:30-34, the keys of value_sources
Keys == {"current", "current2", "current3"}
\* keys a client may ask for
RequestKeys == Keys \cup {"missing"}

\* app.py:31-33, what the producer of key k returns
Produce(k) ==
    IF k = "current" THEN simulated.value
    ELSE IF k = "current2" THEN current_value2
    ELSE Current_value3

\* app.py:42-51, GET /api/snapshot; the producers in raising raise
snapshot(c) ==
    /\ callers[c].pc = "idle"
    /\ \E raising \in SUBSET Keys :
        resp' = [op |-> "snapshot", key |-> "", raising |-> raising, status |-> 200,
                 body |-> [k \in Keys |-> IF k \in raising THEN None ELSE Some(Produce(k))],
                 invoked |-> Keys]
    /\ UNCHANGED <<simulated, loops, callers, sinceStop>>

\* get_value without the test of line 58: calling None raises inside the try
get_value_no_lookup_test(c) ==
    /\ callers[c].pc = "idle"
    /\ \E key \in RequestKeys, raising \in SUBSET Keys :
        resp' = IF key \notin Keys \/ key \in raising
                THEN [op |-> "get_value", key |-> key, raising |-> raising, status |-> 500,
                      body |-> NoBody, invoked |-> {key}]
                ELSE [op |-> "get_value", key |-> key, raising |-> raising, status |-> 200,
                      body |-> [k \in {key} |-> Some(Produce(k))], invoked |-> {key}]
    /\ UNCHANGED <<simulated, loops, callers, sinceStop>>

\* app.py:54-63, GET /api/value/{key}; the producers in raising raise
get_value(c) ==
    /\ callers[c].pc = "idle"
    /\ \E key \in RequestKeys, raising \in SUBSET Keys :
        resp' = IF key \notin Keys
                THEN [op |-> "get_value", key |-> key, raising |-> raising, status |-> 404,
                      body |-> NoBody, invoked |-> {}]
                ELSE IF key \in raising
                THEN [op |-> "get_value", key |-> key, raising |-> raising, status |-> 500,
                      body |-> NoBody, invoked |-> {key}]
                ELSE [op |-> "get_value", key |-> key, raising |-> raising, status |-> 200,
                      body |-> [k \in {key} |-> Some(Produce(k))], invoked |-> {key}]
    /\ UNCHANGED <<simulated, loops, callers, sinceStop>>

-----------------------------------------------------------------------------
(* One control thread that starts the simulator and reconfigures it *)
Next ==
    \/ start_25("t1")
    \/ start_26("t1")
    \/ start_27("t1")
    \/ start_28("t1")
    \/ configure_7("t1")
    \/ configure_8("t1")
    \/ configure_9("t1")
    \/ configure_10("t1")
    \/ \E l \in LoopIds : loop_13(l)
    \/ \E l \in LoopIds : loop_16(l)
    \/ \E l \in LoopIds : loop_17(l, DTs)
    \/ \E l \in LoopIds : loop_22(l)

Spec == Init /\ [][Next]_vars

(* Threads that call start() and stop() concurrently, default configuration *)
RaceNext ==
    \/ \E c \in Callers : start_25(c)
    \/ \E c \in Callers : start_26(c)
    \/ \E c \in Callers : start_27(c)
    \/ \E c \in Callers : start_28(c)
    \/ \E c \in Callers : stop_31(c)
    \/ \E l \in LoopIds : loop_13(l)
    \/ \E l \in LoopIds : loop_16(l)
    \/ \E l \in LoopIds : loop_17(l, CoarseDTs)
    \/ \E l \in LoopIds : loop_22(l)

RaceSpec == Init /\ [][RaceNext]_vars

(* app.py: the import calls sim_start() once (line 19), then requests are served *)
Serving == simulated._running /\ callers["t1"].pc = "idle"

HttpNext ==
    \/ ~simulated._running /\ start_25("t1")
    \/ start_26("t1")
    \/ start_27("t1")
    \/ start_28("t1")
    \/ \E l \in LoopIds : loop_13(l)
    \/ \E l \in LoopIds : loop_16(l)
    \/ \E l \in LoopIds : loop_17(l, CoarseDTs)
    \/ \E l \in LoopIds : loop_22(l)
    \/ \E c \in Callers : Serving /\ snapshot(c)
    \/ \E c \in Callers : Serving /\ get_value(c)

HttpSpec == Init /\ [][HttpNext]_vars

(* One control thread that starts and stops the simulator, restarts it while
   at most one loop thread of an earlier run is still alive, and reconfigures
   it while it is stopped and no loop thread is alive *)
RestartNext ==
    \/ Cardinality(ActiveLoops) <= 1 /\ start_25("t1")
    \/ start_26("t1")
    \/ start_27("t1")
    \/ start_28("t1")
    \/ stop_31("t1")
    \/ ~simulated._running /\ ActiveLoops = {} /\ configure_7("t1")
    \/ configure_8("t1")
    \/ configure_9("t1")
    \/ configure_10("t1")
    \/ \E l \in LoopIds : loop_13(l)
    \/ \E l \in LoopIds : loop_16(l)
    \/ \E l \in LoopIds : loop_17(l, CoarseDTs)
    \/ \E l \in LoopIds : loop_22(l)

RestartSpec == Init /\ [][RestartNext]_vars

(* One control thread that starts, stops and reconfigures the simulator (a
   start() is called while it runs or once the loop thread of the earlier run
   is gone, a configure() while it is stopped and no loop thread is alive),
   and a client that reads values while it runs *)
FrameNext ==
    \/ (simulated._running \/ ActiveLoops = {}) /\ start_25("t1")
    \/ start_26("t1")
    \/ start_27("t1")
    \/ start_28("t1")
    \/ stop_31("t1")
    \/ ~simulated._running /\ ActiveLoops = {} /\ configure_7("t1")
    \/ configure_8("t1")
    \/ configure_9("t1")
    \/ configure_10("t1")
    \/ \E l \in LoopIds : loop_13(l)
    \/ \E l \in LoopIds : loop_16(l)
    \/ \E l \in LoopIds : loop_17(l, CoarseDTs)
    \/ \E l \in LoopIds : loop_22(l)
    \/ Serving /\ get_value("t2")

FrameSpec == Init /\ [][FrameNext]_vars

(* One tick of _loop(), simulate.py:16-23, from any position, direction and
   configuration: the loop thread is at line 17, its x was the last value
   written, and low and high count as written at this point *)
TickXs == {-60, 0, 60, 155, 180}
TickLows == {0, 120}
TickHighs == {0, 60, 180}
TickSpeeds == {10, 20}

BounceInit ==
    \E x \in TickXs, direction \in {1, -1}, low \in TickLows, high \in TickHighs,
       speed \in TickSpeeds :
        /\ simulated = [value |-> x, low |-> low, high |-> high, speed |-> speed,
                        _running |-> TRUE]
        /\ loops = [l \in LoopIds |->
                      IF l = 1
                      THEN [NoLoop EXCEPT !.pc = "L17", !.x = x, !.direction = direction,
                                          !.cfgx = IF InWindow(simulated, x) THEN "in"
                                                   ELSE "out"]
                      ELSE NoLoop]
        /\ callers = [c \in Callers |-> IdleCaller]
        /\ sinceStop = -1
        /\ resp = NoResp

BounceNext ==
    \/ \E l \in LoopIds : loop_16(l)
    \/ \E l \in LoopIds : loop_17(l, DTs)
    \/ \E l \in LoopIds : loop_22(l)

BounceSpec == BounceInit /\ [][BounceNext]_vars

-----------------------------------------------------------------------------
(* Properties *)

\* C1: at most one loop thread is alive at any time, whatever the interleaving
\* of start() and stop() calls.
AtMostOneLoop == Cardinality(ActiveLoops) <= 1

\* C2: as long as low and high are not written after the loop thread was
\* launched, every value the loop writes lies within [min(low,high),
\* max(low,high)], whatever the speed and the elapsed time dt (stated for
\* low # high, the case most favourable to the claim).
BoundsInvariant ==
    \A l \in LoopIds :
        (loops[l].cfgx = "none" /\ simulated.low # simulated.high) => loops[l].outs = 0

\* C3: after stop() returned and while no start() runs after it, value is
\* written at most once more.
StopHaltsAdvancement == sinceStop <= 1

\* C4: a start() that reads the run flag as true returns at once: it launches
\* no thread and writes no field; a start() that reaches line 28 launches
\* exactly one thread.
IdempotentStart ==
    [][\A c \in Callers :
        /\ (callers[c].pc = "L26" /\ callers'[c].pc # "L26" /\ simulated._running)
              => (callers'[c].pc = "idle" /\ simulated' = simulated /\ loops' = loops)
        /\ (callers[c].pc = "L28" /\ callers'[c].pc # "L28")
              => Cardinality(ActiveLoops') = Cardinality(ActiveLoops) + 1]_vars

\* C4 witness: a thread's start() has just returned at line 26 while the first
\* start()'s loop is the only one alive and nobody else is in a call.
IdempotentStartWitness ==
    \E c \in Callers :
        /\ callers[c].op = "start_noop"
        /\ \A d \in Callers : callers[d].pc = "idle"
        /\ simulated._running
        /\ sinceStop = -1
        /\ Cardinality(ActiveLoops) = 1

\* C5: speed is positive in every state, and line 10 of a configure() whose
\* speed argument is not positive changes nothing and returns.
SpeedGuard ==
    /\ [](simulated.speed > 0)
    /\ [][\A c \in Callers :
            (/\ callers[c].pc = "L10" /\ callers'[c].pc # "L10"
             /\ callers[c].speed # None /\ callers[c].speed[1] <= 0)
              => (callers'[c].pc = "idle" /\ simulated' = simulated)]_vars

\* C5 witness: a configure() with a non-positive speed has returned after the
\* speed had been set to 20, and the speed is still 20.
SpeedGuardWitness ==
    \E c \in Callers :
        /\ callers[c].op = "configure_speed_ignored"
        /\ callers[c].pc = "idle"
        /\ simulated.speed = 20

\* C6: each line of configure() writes its own field with the argument given
\* (line 10 only a positive speed) and nothing else; with the argument omitted
\* it writes nothing.  low > high is stored as given.
ConfigureFrame ==
    [][\A c \in Callers :
        /\ (callers[c].pc = "L8" /\ callers'[c].pc # "L8") =>
              /\ simulated'.low = IF callers[c].low # None THEN callers[c].low[1]
                                  ELSE simulated.low
              /\ simulated'.high = simulated.high
              /\ simulated'.speed = simulated.speed
              /\ simulated'.value = simulated.value
              /\ simulated'._running = simulated._running
        /\ (callers[c].pc = "L9" /\ callers'[c].pc # "L9") =>
              /\ simulated'.high = IF callers[c].high # None THEN callers[c].high[1]
                                   ELSE simulated.high
              /\ simulated'.low = simulated.low
              /\ simulated'.speed = simulated.speed
              /\ simulated'.value = simulated.value
              /\ simulated'._running = simulated._running
        /\ (callers[c].pc = "L10" /\ callers'[c].pc # "L10") =>
              /\ simulated'.speed = IF callers[c].speed # None /\ callers[c].speed[1] > 0
                                    THEN callers[c].speed[1] ELSE simulated.speed
              /\ simulated'.low = simulated.low
              /\ simulated'.high = simulated.high
              /\ simulated'.value = simulated.value
              /\ simulated'._running = simulated._running]_vars

\* C6 witness: configure() has returned and left low = 120 above high = 60,
\* with the speed it set.
ConfigureFrameWitness ==
    /\ callers["t1"].pc = "idle"
    /\ simulated.low = 120
    /\ simulated.high = 60
    /\ simulated.speed = 20

HttpErrorMapping ==
    /\ [](/\ (resp.op = "get_value" /\ resp.key \notin Keys)
              => (resp.status = 404 /\ resp.invoked = {})
          /\ (resp.op = "get_value" /\ resp.key \in Keys /\ resp.key \in resp.raising)
              => (resp.status = 500 /\ resp.invoked = {resp.key})
          /\ (resp.op = "get_value" /\ resp.key \in Keys /\ resp.key \notin resp.raising)
              => (resp.status = 200 /\ DOMAIN resp.body = {resp.key})
          /\ (resp.op = "snapshot")
              => /\ resp.status = 200
                 /\ DOMAIN resp.body = Keys
                 /\ \A k \in Keys : (resp.body[k] = None) <=> (k \in resp.raising))
    /\ [][resp' # resp => (simulated' = simulated /\ loops' = loops)]_vars

\* C8 witness: a snapshot served while the loop runs, in which the producer of
\* "current" raised: its entry is null and the two others carry their values.
HttpErrorMappingWitness ==
    /\ resp.op = "snapshot"
    /\ resp.raising = {"current"}
    /\ resp.body["current"] = None
    /\ resp.body["current2"] = Some(current_value2)
    /\ resp.body["current3"] = Some(Current_value3)
    /\ simulated.value > 0

\* C9: a loop thread that tests the run flag after a stop() was called leaves
\* the loop, whatever was called after that stop().
StoppedLoopTerminates ==
    [][\A l \in LoopIds :
        (loops[l].stopSeen /\ loops[l].pc = "L16" /\ loops'[l].pc # "L16")
          => loops'[l].pc = "none"]_vars

\* C10: after low or high is written so that a loop's x lies outside the new
\* window, at most one value that loop writes is outside the window (stated
\* for ticks whose step is smaller than the window, and not counting a tick
\* computed before the write).
SingleTransient ==
    \A l \in LoopIds : (loops[l].cfgx = "out" /\ ~loops[l].big) => loops[l].outs <= 1

\* C11: once low or high is written so that min(low,high) = max(low,high)
\* while a loop's x is at that point, x stays at that point: every later tick
\* computes, and writes, exactly that value.
DegeneratePoint ==
    \A l \in LoopIds :
        (loops[l].cfgx = "in" /\ simulated.low = simulated.high)
          => loops[l].x = simulated.low

\* C12: one tick equals the reference bounce step for every x, direction,
\* speed, dt, low and high: with lo = min(low,high), hi = max(low,high) and
\* a = x + direction*speed*dt, the tick leaves (2*hi - a, -1) if a >= hi,
\* otherwise (2*lo - a, +1) if a <= lo, otherwise (a, direction), dt being one
\* of the elapsed times the tick can measure; the high test comes first and
\* there is one reflection at most.  What line 22 writes is that x.
TickIsBounceStep ==
    [][\A l \in LoopIds :
        /\ (loops[l].pc = "L17" /\ loops'[l].pc = "L22") =>
              \E dt \in DTs :
                LET lo == IF simulated.low <= simulated.high
                          THEN simulated.low ELSE simulated.high
                    hi == IF simulated.low <= simulated.high
                          THEN simulated.high ELSE simulated.low
                    a == loops[l].x + loops[l].direction * simulated.speed * dt
                IN  IF a >= hi
                    THEN loops'[l].x = 2 * hi - a /\ loops'[l].direction = -1
                    ELSE IF a <= lo
                    THEN loops'[l].x = 2 * lo - a /\ loops'[l].direction = 1
                    ELSE loops'[l].x = a /\ loops'[l].direction = loops[l].direction
        /\ (loops[l].pc = "L22" /\ loops'[l].pc = "L16") =>
              simulated'.value = loops[l].x]_vars

\* C12 witness: from x = 155 going up at speed 10, a tick of 3 s with hi = 180
\* advanced to 185 and left x = 175, direction -1, about to be written.
TickIsBounceStepWitness ==
    /\ loops[1].pc = "L22"
    /\ simulated.value = 155
    /\ simulated.low = 0 /\ simulated.high = 180 /\ simulated.speed = 10
    /\ loops[1].x = 175
    /\ loops[1].direction = -1

\* C13: every launched loop, on the first start and on every restart after
\* stop(), begins with x = min(low, high) as read when it runs line 13 and
\* direction = +1, whatever value the previous run left; a configure() made
\* while stopped writes no value, and the low and high it leaves are the ones
\* the next loop starts from.
LoopStartsAtLowerBound ==
    [][/\ \A l \in LoopIds :
            (loops[l].pc = "L13" /\ loops'[l].pc # "L13") =>
                /\ loops'[l].pc = "L16"
                /\ loops'[l].x = (IF simulated.low <= simulated.high
                                  THEN simulated.low ELSE simulated.high)
                /\ loops'[l].direction = 1
                /\ simulated' = simulated
       /\ \A c \in Callers :
            (callers[c].pc \in {"idle", "L8", "L9", "L10"}
               /\ callers'[c].pc \in {"L8", "L9", "L10", "idle"}
               /\ callers'[c].pc # callers[c].pc) =>
                simulated'.value = simulated.value]_vars

\* C13 witness: a restarted loop has just run line 13 after a configure(low=120)
\* made while stopped: its x is 120, the value left by the previous run is
\* neither 120 nor the initial 0, and nothing was written since.
LoopStartsAtLowerBoundWitness ==
    /\ simulated._running
    /\ callers["t1"].pc = "idle"
    /\ simulated.low = 120 /\ simulated.high = 180
    /\ simulated.value \notin {0, 120}
    /\ ActiveLoops = {1}
    /\ loops[1].pc = "L16" /\ loops[1].cfgx = "none" /\ ~loops[1].wrote
    /\ loops[1].x = 120 /\ loops[1].direction = 1

\* C14: single-writer frame.  value changes only in a step of a loop thread
\* at line 22, so start(), stop(), configure() and reads leave it unchanged;
\* the run flag changes only at line 27 of start(), to true, and in stop(), to
\* false, so configure() and loop steps leave it unchanged; a step of a loop
\* thread leaves low, high and speed unchanged.
SingleWriterFrame ==
    [][/\ simulated'.value # simulated.value =>
            \E l \in LoopIds : /\ loops[l].pc = "L22" /\ loops'[l].pc = "L16"
                                /\ simulated'.value = loops[l].x
       /\ simulated'._running # simulated._running =>
            \/ /\ simulated'._running
               /\ \E c \in Callers : callers[c].pc = "L27" /\ callers'[c].pc = "L28"
            \/ /\ ~simulated'._running
               /\ sinceStop' = 0
               /\ \A c \in Callers : callers'[c].pc = callers[c].pc
               /\ \A l \in LoopIds : loops'[l].pc = loops[l].pc
       /\ \A c \in Callers :
            callers'[c].pc # callers[c].pc =>
                /\ simulated'.value = simulated.value
                /\ (callers[c].pc # "L27" => simulated'._running = simulated._running)
       /\ resp' # resp => simulated' = simulated
       /\ \A l \in LoopIds :
            (Active(l) /\ loops'[l].pc # loops[l].pc) =>
                /\ simulated'.low = simulated.low
                /\ simulated'.high = simulated.high
                /\ simulated'.speed = simulated.speed
                /\ simulated'._running = simulated._running]_vars

\* C14 witness: the simulator ran and wrote a value, a client read it, then
\* stop() was called, the loop thread ended and configure(low=120) was made:
\* value is still the one the loop wrote and the client read.
SingleWriterFrameWitness ==
    /\ ~simulated._running
    /\ ActiveLoops = {}
    /\ sinceStop >= 0
    /\ callers["t1"].pc = "idle"
    /\ simulated.low = 120
    /\ simulated.value > 0
    /\ resp.op = "get_value" /\ resp.key = "current" /\ resp.status = 200
    /\ resp.body["current"] = Some(simulated.value)

\* C15: for a single tick with lo < hi, if x is within [lo, hi] before the
\* tick and the step speed*dt is at most hi - lo, the x the tick leaves, which
\* is the x line 22 writes, is within [lo, hi].  Hence, with low and high fixed
\* and x starting inside, x and every written value stay inside as long as no
\* step reaches the width (the history field big records a step >= hi - lo).
\* The single tick is stated for every elapsed time dt the tick's outcome is
\* the outcome of.
StepWithinWidthStaysInside ==
    /\ [](\A l \in LoopIds :
            (loops[l].cfgx = "in" /\ ~loops[l].big /\ simulated.low # simulated.high) =>
                /\ min(simulated.low, simulated.high) <= loops[l].x
                /\ loops[l].x <= max(simulated.low, simulated.high)
                /\ loops[l].outs = 0)
    /\ [][\A l \in LoopIds :
            LET lo == min(simulated.low, simulated.high)
                hi == max(simulated.low, simulated.high)
            IN  /\ \A dt \in DTs :
                    (/\ loops[l].pc = "L17" /\ loops'[l].pc = "L22"
                     /\ lo < hi
                     /\ lo <= loops[l].x /\ loops[l].x <= hi
                     /\ simulated.speed * dt <= hi - lo
                     /\ loops'[l].x = Bounce(loops[l].x, loops[l].direction,
                                             simulated.speed * dt, lo, hi).x
                     /\ loops'[l].direction = Bounce(loops[l].x, loops[l].direction,
                                                     simulated.speed * dt, lo, hi).direction) =>
                        (lo <= loops'[l].x /\ loops'[l].x <= hi)
                /\ (loops[l].pc = "L22" /\ loops'[l].pc = "L16") =>
                        simulated'.value = loops[l].x]_vars

\* C15 witness: a tick whose step is exactly the width: low = 0, high = 60,
\* x = 60 before the tick, speed = 20 and dt = 3 s; the tick advanced to 120
\* and left x = 0, inside the window, about to be written.
StepWithinWidthStaysInsideWitness ==
    /\ loops[1].pc = "L22"
    /\ simulated.low = 0 /\ simulated.high = 60
    /\ simulated.value = 60 /\ simulated.speed = 20
    /\ loops[1].x = 0
    /\ loops[1].direction = -1

\* C16: in every reachable state where the run flag is true and no start()
\* call is between line 27 (flag set) and line 28 (thread launched), at least
\* one loop thread is alive; and a loop thread ends only at line 16, on
\* reading the run flag as false.
RunFlagImpliesLiveLoop ==
    /\ []((simulated._running /\ \A c \in Callers : callers[c].pc # "L28")
            => \E l \in LoopIds : loops[l].pc \in {"L13", "L16", "L17", "L22"})
    /\ [][\A l \in LoopIds :
            (loops[l].pc # "none" /\ loops'[l].pc = "none") =>
                (loops[l].pc = "L16" /\ ~simulated._running)]_vars

\* C16 witness: the run flag is true, no start() is in progress, and the loop
\* thread that is alive has already written a value.
RunFlagImpliesLiveLoopWitness ==
    /\ simulated._running
    /\ \A c \in Callers : callers[c].pc = "idle"
    /\ simulated.value > 0
    /\ \E l \in LoopIds : loops[l].pc = "L16" /\ loops[l].wrote

=============================================================================
